---- MODULE Spec2Model ----
(***************************************************************************)
(* A model of cafberiht_example.cpp: the compile-time heterogeneous        *)
(* container `cafberiht<bases...>`, its tag-keyed and positional access,   *)
(* its reverse lookup, its filtered visitor walk, the static diagnostic    *)
(* channel, and the example program `main`.                                *)
(*                                                                         *)
(* Everything the container decides is decided while the translation unit  *)
(* is built.  The model treats each template instantiation the program     *)
(* contains as one step: a step whose static_assert fails (or that the     *)
(* language itself rejects) puts the build in the terminal state           *)
(* pc = "rejected" with the diagnostic in `diag`; no later step exists.    *)
(*                                                                         *)
(* Indices are 0-based as in the source, so the aggregator, the pack of    *)
(* bases and the element storage are functions over 0..W-1.                *)
(*                                                                         *)
(* Enumerator encodings are uint64_t in the source.  Every encoding the    *)
(* model draws is far below 2^31, where static_cast<core_types>(uint64_t)  *)
(* and static_cast<uint64_t>(core_types) both keep the value (core_types   *)
(* has underlying type int), so a base type core_interface<e> is named by  *)
(* the number e.  The one value that does not fit, the sentinel            *)
(* std::numeric_limits<uint64_t>::max(), is kept exact by writing uint64_t *)
(* results as four 16-bit limbs, least significant first.                  *)
(***************************************************************************)
EXTENDS Integers, Sequences, FiniteSets, TLC

\* ---------------------------------------------------------------- bounds
\* Largest width of an input aggregator in Spec.
MaxLen == 2
\* Input aggregators in Spec draw their entries from 0..MaxEnum.
MaxEnum == 3
\* rand() returns a value in 0..MaxRand.
MaxRand == 1
\* A caller of impl passes an accumulator holding a value in 0..MaxArg.
MaxArg == 0
\* kernel_iteration_count is not driven beyond MaxIter.
MaxIter == 1
\* Largest configured cafberiht_width in SpecMain.
MaxWidth == 101

\* ------------------------------------------------------ program constants
\* core_types::count, the enumerator after the 100 operation enumerators.
count == 100

VARIABLES
    cafberiht_width,         \* W, from config.hpp
    values,                  \* aggregator_type::values, [0..W-1 -> encodings]
    pc,                      \* "config" | "idle" | "walk" | "rejected"
    main_line,               \* main's position (source line), 0 outside main
    bases,                   \* the pack of the instantiated container
    kernel_iteration_count,  \* element state, by storage slot
    diag,                    \* the diagnostic that rejected the build
    mixin,                   \* mixin_type of the current / last walk or step
    step,                    \* the last direct impl_internal_filtered call
    k,                       \* number of fold operands already evaluated
    output_value,            \* the accumulator argument threaded through
    entry,                   \* the arguments and element state at the call
    trace,                   \* slots on which mixin_type::impl ran, in order
    ret,                     \* the last access / lookup result
    printed                  \* what main wrote to standard output

vars == << cafberiht_width, values, pc, main_line, bases,
           kernel_iteration_count, diag, mixin, step, k, output_value,
           entry, trace, ret, printed >>

NoDiag == [kind |-> "none", values |-> << >>]
NoRet == [op |-> "none"]
NoStep == [called |-> FALSE]
NoPrint == << >>

\* ------------------------------------------------------------- uint64_t
Limb == 2 ^ 16

\* A value below 2^31 as a uint64_t.
uint64_t(n) == << n % Limb, n \div Limb, 0, 0 >>

\* std::numeric_limits<uint64_t>::max() = 2^64 - 1.
numeric_limits_max == << Limb - 1, Limb - 1, Limb - 1, Limb - 1 >>

\* ------------------------------------------------- static diagnostic channel
\* static_assert_printer<value, enum_error, values...>::impl: true when the
\* condition holds; otherwise the undefined static_assert_printer_impl<
\* enum_error, values...> is named, and the build stops on a diagnostic that
\* spells the error kind and the inserted values.
static_assert_printer(value, enum_error, vals) ==
    IF ~value THEN [kind |-> enum_error, values |-> vals] ELSE NoDiag

\* ------------------------------------------------------------ config.hpp
\* The widths cafberiht_width is configured with: a build supplies one
\* integer; 0 is the width the container refuses.
Widths == 0 .. MaxWidth

\* ----------------------------------------------------------- aggregator
\* core_aggregator::values for a configured width.
core_aggregator(width) == [x \in 0 .. width - 1 |-> x]

\* ------------------------------------------------------------- container
size == cafberiht_width

Slots == DOMAIN bases

\* get_cafberiht_array: bases[i] is base_type<aggregator_type::values[i]>.
get_cafberiht_array(agg, width) == [i \in 0 .. width - 1 |-> agg[i]]

\* The table filled one position off.
index_transform_values_shifted ==
    [i \in Slots |-> bases[(i + 1) % Cardinality(Slots)]]

\* index_transform_values[i] = bases[i]::enum_value.
index_transform_values == [i \in Slots |-> bases[i]]

\* A class may not name the same direct base twice.
duplicate_base(bs) ==
    \E i, j \in DOMAIN bs : i < j /\ bs[i] = bs[j]

\* The class without the static_assert on sizeof...(bases).
cafberiht_class_unchecked(bs) ==
    IF duplicate_base(bs)
    THEN [kind |-> "duplicate_base_class", values |-> << >>]
    ELSE NoDiag

\* Instantiating cafberiht<bases...>: the base clause first, then the
\* static_assert that opens the class body.
cafberiht_class(bs) ==
    IF duplicate_base(bs)
    THEN [kind |-> "duplicate_base_class", values |-> << >>]
    ELSE static_assert_printer(Cardinality(DOMAIN bs) > 0,
                               "empty_cafberiht_bases_pack", << >>)

\* (*this)[tag<v>()]: the overloads of operator[] merged from the bases; the
\* one whose tag is v is selected and yields that base subobject.
subscript_candidates(v) == {i \in Slots : bases[i] = v}

subscript(v) == CHOOSE i \in subscript_candidates(v) : TRUE

\* std::is_base_of_v<base_type, cafberiht>.
is_base_of(T) == \E i \in Slots : bases[i] = T

\* get_index_by_enum<enum_value>(): the loop over index_transform_values,
\* from position x on.
RECURSIVE get_index_by_enum_from(_, _)
get_index_by_enum_from(x, enum_value) ==
    IF x < size
    THEN IF index_transform_values[x] = enum_value
         THEN uint64_t(x)
         ELSE get_index_by_enum_from(x + 1, enum_value)
    ELSE numeric_limits_max

\* The loop started at 1.
get_index_by_enum_value_from_one(enum_value) ==
    get_index_by_enum_from(1, enum_value)

get_index_by_enum_value(enum_value) == get_index_by_enum_from(0, enum_value)

\* ---------------------------------------------------------------- mixins
\* addition_mixin is the mixin of the source.  count_mixin (admits every
\* base; counts the visit in the element and in the argument) and
\* never_mixin (admits none; would act like count_mixin) are mixins a caller
\* supplies to impl<mixin_type>.
Mixins == {"addition_mixin", "count_mixin", "never_mixin"}

\* addition_mixin admitting the odd enumerators.
filter_odd(mixin_type, enum_value) ==
    CASE mixin_type = "addition_mixin" -> (enum_value % 2) = 1
      [] mixin_type = "count_mixin" -> TRUE
      [] mixin_type = "never_mixin" -> FALSE

\* mixin_type<base_type>::filter(), base_type = core_interface<enum_value>.
filter(mixin_type, enum_value) ==
    CASE mixin_type = "addition_mixin" -> (enum_value % 2) = 0
      [] mixin_type = "count_mixin" -> TRUE
      [] mixin_type = "never_mixin" -> FALSE

\* Whether mixin_type::impl writes the element it is handed.
writes_element(mixin_type) == mixin_type # "addition_mixin"

\* mixin_type<base_type>::impl(base, output_value) on the element in `slot`,
\* the accumulator holding `arg`.  Within the bounds no sum comes near 2^64,
\* so the uint64_t addition never wraps.
mixin_impl(mixin_type, slot, arg) ==
    IF mixin_type = "addition_mixin"
    THEN /\ \E r \in 0 .. MaxRand : output_value' = arg + r
         /\ UNCHANGED kernel_iteration_count
    ELSE /\ output_value' = arg + 1
         /\ kernel_iteration_count' =
                [kernel_iteration_count EXCEPT ![slot] = @ + 1]

\* The step without its if constexpr.
admitted_always(mixin_type, base_type) == TRUE

\* Whether impl_internal_filtered<mixin_type, base_type> reaches the body of
\* its if constexpr.
admitted(mixin_type, base_type) == filter(mixin_type, base_type)

\* The static_assert with a condition that always holds.
base_cast_checked_always(base_type) == TRUE

\* The condition of the static_assert inside the if constexpr.
base_cast_checked(base_type) == is_base_of(base_type)

\* impl_internal_filtered<mixin_type, base_type>(args...), the accumulator
\* holding `arg` and `log` listing the slots visited so far.
impl_internal_filtered(mixin_type, base_type, arg, log) ==
    IF admitted(mixin_type, base_type)
    THEN LET d == static_assert_printer(base_cast_checked(base_type),
                                        "invalid_base_cast", << >>)
         IN  IF d # NoDiag
             THEN /\ diag' = d
                  /\ pc' = "rejected"
                  /\ output_value' = arg
                  /\ trace' = log
                  /\ UNCHANGED kernel_iteration_count
             ELSE IF ~is_base_of(base_type)
             THEN \* *this does not convert to base_type&.
                  /\ diag' = [kind |-> "no_conversion_to_base",
                              values |-> << >>]
                  /\ pc' = "rejected"
                  /\ output_value' = arg
                  /\ trace' = log
                  /\ UNCHANGED kernel_iteration_count
             ELSE /\ mixin_impl(mixin_type, subscript(base_type), arg)
                  /\ trace' = Append(log, subscript(base_type))
                  /\ diag' = diag
                  /\ pc' = IF pc = "walk" THEN "walk" ELSE "idle"
    ELSE /\ output_value' = arg
         /\ trace' = log
         /\ diag' = diag
         /\ pc' = IF pc = "walk" THEN "walk" ELSE "idle"
         /\ UNCHANGED kernel_iteration_count

\* The fold evaluated right to left.
fold_operand_reversed(n) == bases[size - 1 - n]

\* The n-th operand of the fold (impl_internal_filtered<mixin_type, bases>(
\* args...), ...): a comma fold evaluates its operands left to right.
fold_operand(n) == bases[n]

\* The element that a call with this mixin and element type would write.
would_write(mixin_type, base_type) ==
    /\ writes_element(mixin_type)
    /\ admitted(mixin_type, base_type)
    /\ is_base_of(base_type)

\* --------------------------------------------------------------- actions
\* get_cafberiht_array_t<core_types, aggregator, core_interface> object{}.
Construct ==
    /\ pc = "config"
    /\ LET bs == get_cafberiht_array(values, cafberiht_width)
           d == cafberiht_class(bs)
       IN  IF d # NoDiag
           THEN /\ diag' = d
                /\ pc' = "rejected"
                /\ UNCHANGED << bases, kernel_iteration_count >>
           ELSE /\ bases' = bs
                /\ kernel_iteration_count' = [i \in DOMAIN bs |-> 0]
                /\ pc' = "idle"
                /\ UNCHANGED diag
    /\ UNCHANGED << cafberiht_width, values, mixin, step, k, output_value,
                    entry, trace, ret, printed >>

Instantiate == Construct /\ UNCHANGED main_line

\* The call of impl<mixin_type>(arg): the fold starts.
impl_enter(mixin_type, arg) ==
    /\ pc = "idle"
    /\ \A i \in Slots : would_write(mixin_type, bases[i]) =>
                            kernel_iteration_count[i] < MaxIter
    /\ pc' = "walk"
    /\ mixin' = mixin_type
    /\ k' = 0
    /\ output_value' = arg
    /\ entry' = [output_value |-> arg,
                 kernel_iteration_count |-> kernel_iteration_count]
    /\ trace' = << >>
    /\ step' = NoStep
    /\ ret' = NoRet
    /\ UNCHANGED << cafberiht_width, values, bases, kernel_iteration_count,
                    diag, printed >>

impl_call ==
    /\ main_line = 0
    /\ \E mixin_type \in Mixins, arg \in 0 .. MaxArg :
           impl_enter(mixin_type, arg)
    /\ UNCHANGED main_line

\* One operand of the fold.
impl_fold ==
    /\ pc = "walk"
    /\ k < size
    /\ impl_internal_filtered(mixin, fold_operand(k), output_value, trace)
    /\ k' = k + 1
    /\ UNCHANGED << cafberiht_width, values, main_line, bases, mixin, step,
                    entry, ret, printed >>

\* impl returns once every operand is evaluated.
impl_return ==
    /\ pc = "walk"
    /\ k = size
    /\ pc' = "idle"
    /\ UNCHANGED << cafberiht_width, values, main_line, bases,
                    kernel_iteration_count, diag, mixin, step, k,
                    output_value, entry, trace, ret, printed >>

\* impl_internal_filtered<mixin_type, base_type>(arg) called on its own, as
\* a class derived from the container can, with any element type.
impl_internal_filtered_call ==
    /\ pc = "idle"
    /\ main_line = 0
    /\ \E mixin_type \in Mixins, base_type \in 0 .. MaxEnum,
          arg \in 0 .. MaxArg :
           /\ would_write(mixin_type, base_type) =>
                  kernel_iteration_count[subscript(base_type)] < MaxIter
           /\ impl_internal_filtered(mixin_type, base_type, arg, << >>)
           /\ mixin' = mixin_type
           /\ step' = [called |-> TRUE, mixin_type |-> mixin_type,
                       base_type |-> base_type]
           /\ entry' = [output_value |-> arg,
                        kernel_iteration_count |-> kernel_iteration_count]
    /\ k' = 0
    /\ ret' = NoRet
    /\ UNCHANGED << cafberiht_width, values, main_line, bases, printed >>

\* An access or lookup takes no walk arguments: what the model remembers of
\* the previous walk or step is dropped.
no_walk ==
    /\ mixin' = "addition_mixin"
    /\ step' = NoStep
    /\ k' = 0
    /\ output_value' = 0
    /\ entry' = [output_value |-> 0, kernel_iteration_count |-> << >>]
    /\ trace' = << >>

\* get_core_by_enum<enum_value>(): a reference to the selected element.
get_core_by_enum_ref(enum_value) == subscript(enum_value)

get_core_by_enum ==
    /\ pc = "idle"
    /\ main_line = 0
    /\ \E enum_value \in 0 .. MaxEnum :
           IF subscript_candidates(enum_value) = {}
           THEN \* no operator[] takes tag<enum_value>.
                /\ diag' = [kind |-> "no_matching_subscript",
                            values |-> << enum_value >>]
                /\ pc' = "rejected"
                /\ ret' = NoRet
           ELSE /\ ret' = [op |-> "get_core_by_enum", arg |-> enum_value,
                           ref |-> get_core_by_enum_ref(enum_value)]
                /\ UNCHANGED << diag, pc >>
    /\ no_walk
    /\ UNCHANGED << cafberiht_width, values, main_line, bases,
                    kernel_iteration_count, printed >>

\* The bound test off by one.
index_in_bounds_inclusive(index_new) == index_new <= size

\* The condition of the static_assert of get_core_by_index<index_new>().
index_in_bounds(index_new) == index_new < size

\* get_core_by_index<index_new>() past its static_assert.
get_core_by_index_ref(index_new) ==
    subscript(index_transform_values[index_new])

get_core_by_index ==
    /\ pc = "idle"
    /\ main_line = 0
    /\ \E index_new \in 0 .. size + 1 :
           LET d == static_assert_printer(index_in_bounds(index_new),
                                          "get_core_by_index_oob",
                                          << index_new >>)
           IN  IF d # NoDiag
               THEN /\ diag' = d
                    /\ pc' = "rejected"
                    /\ ret' = [op |-> "get_core_by_index", arg |-> index_new]
               ELSE IF index_new \notin DOMAIN index_transform_values
               THEN \* reading past the table is not a constant expression.
                    /\ diag' = [kind |-> "not_a_constant_expression",
                                values |-> << index_new >>]
                    /\ pc' = "rejected"
                    /\ ret' = [op |-> "get_core_by_index", arg |-> index_new]
               ELSE /\ ret' = [op |-> "get_core_by_index",
                               arg |-> index_new,
                               ref |-> get_core_by_index_ref(index_new)]
                    /\ UNCHANGED << diag, pc >>
    /\ no_walk
    /\ UNCHANGED << cafberiht_width, values, main_line, bases,
                    kernel_iteration_count, printed >>

\* get_index_by_enum<enum_value>().
get_index_by_enum ==
    /\ pc = "idle"
    /\ main_line = 0
    /\ \E enum_value \in 0 .. MaxEnum :
           ret' = [op |-> "get_index_by_enum", arg |-> enum_value,
                   val |-> get_index_by_enum_value(enum_value)]
    /\ no_walk
    /\ UNCHANGED << cafberiht_width, values, pc, main_line, bases,
                    kernel_iteration_count, diag, printed >>

\* ------------------------------------------------------------------ main
\* get_cafberiht_array_t<core_types, core_aggregator, core_interface>
\* cafberiht_val{}; uint64_t value{};
main_construct ==
    /\ main_line = 284
    /\ Construct
    /\ main_line' = 286

\* cafberiht_val.impl<addition_mixin>(value);
main_impl ==
    /\ main_line = 286
    /\ impl_enter("addition_mixin", 0)
    /\ main_line' = 287

\* std::cout << "Final Value: " << value << ", For Cafberiht Width of: "
\*           << cafberiht_width << std::endl; return 0;
main_print ==
    /\ main_line = 287
    /\ pc = "idle"
    /\ printed' = << output_value, cafberiht_width >>
    /\ main_line' = 288
    /\ UNCHANGED << cafberiht_width, values, pc, bases,
                    kernel_iteration_count, diag, mixin, step, k,
                    output_value, entry, trace, ret >>

\* -------------------------------------------------------- specifications
InitCommon ==
    /\ pc = "config"
    /\ bases = << >>
    /\ kernel_iteration_count = << >>
    /\ diag = NoDiag
    /\ mixin = "addition_mixin"
    /\ step = NoStep
    /\ k = 0
    /\ output_value = 0
    /\ entry = [output_value |-> 0, kernel_iteration_count |-> << >>]
    /\ trace = << >>
    /\ ret = NoRet
    /\ printed = NoPrint

\* The container over any aggregator of at most MaxLen entries, used
\* through its public interface.
Init ==
    /\ cafberiht_width \in 0 .. MaxLen
    /\ values \in [0 .. cafberiht_width - 1 -> 0 .. MaxEnum]
    /\ main_line = 0
    /\ InitCommon

Next ==
    \/ Instantiate
    \/ impl_call
    \/ impl_fold
    \/ impl_return
    \/ impl_internal_filtered_call
    \/ get_core_by_enum
    \/ get_core_by_index
    \/ get_index_by_enum

Spec == Init /\ [][Next]_vars

\* The example program, for every configured width up to MaxWidth.
InitMain ==
    /\ cafberiht_width \in Widths
    /\ values = core_aggregator(cafberiht_width)
    /\ main_line = 284
    /\ InitCommon

NextMain ==
    \/ main_construct
    \/ main_impl
    \/ impl_fold
    \/ impl_return
    \/ main_print

SpecMain == InitMain /\ [][NextMain]_vars

\* ================================================================ claims
Built == pc \in {"idle", "walk"}

\* A walk is under way or has just returned (an access or a direct step
\* after it resets k to 0, and a built container has size >= 1).
InWalk == pc = "walk" \/ (pc = "idle" /\ k = size /\ ~step.called)

\* The indices below n whose aggregator entry the mixin admits, ascending.
RECURSIVE AdmittedBelow(_, _)
AdmittedBelow(mixin_type, n) ==
    IF n = 0
    THEN << >>
    ELSE IF filter(mixin_type, values[n - 1])
         THEN Append(AdmittedBelow(mixin_type, n - 1), n - 1)
         ELSE AdmittedBelow(mixin_type, n - 1)

\* The even numbers below n, ascending.
RECURSIVE EvenBelow(_)
EvenBelow(n) ==
    IF n = 0
    THEN << >>
    ELSE IF (n - 1) % 2 = 0
         THEN Append(EvenBelow(n - 1), n - 1)
         ELSE EvenBelow(n - 1)

\* C1: after k operands of the fold, the mixin's impl has run exactly once
\* for each aggregator index below k that the mixin's filter admits, for no
\* other index, in ascending index order; so a returned walk of a mixin that
\* admits everything has run it W times, on 0, 1, ..., W-1.
C1_WalkInIndexOrder ==
    InWalk =>
        /\ trace = AdmittedBelow(mixin, k)
        /\ (pc = "idle" /\ mixin = "count_mixin") =>
               (Len(trace) = size /\ \A i \in 1 .. size : trace[i] = i - 1)

C1_Witness ==
    /\ pc = "idle"
    /\ mixin = "addition_mixin"
    /\ size = 2
    /\ k = 2
    /\ values[0] = 3
    /\ values[1] = 0
    /\ trace = << 1 >>

\* C2: in a built container (its aggregator entries are then distinct), for
\* every i < W the element that get_core_by_enum<values[i]>() refers to is
\* the element that get_core_by_index<i>() refers to, and an access that
\* was made returned that element.
C2_TagAndPositionAlias ==
    Built =>
        /\ \A i \in 0 .. size - 1 :
               get_core_by_enum_ref(values[i]) = get_core_by_index_ref(i)
        /\ (ret.op = "get_core_by_index") =>
               ret.ref = get_core_by_enum_ref(values[ret.arg])
        /\ (ret.op = "get_core_by_enum") =>
               \A i \in 0 .. size - 1 :
                   values[i] = ret.arg => ret.ref = get_core_by_index_ref(i)

C2_Witness ==
    /\ pc = "idle"
    /\ size = 2
    /\ values[0] = 2
    /\ values[1] = 0
    /\ ret.op = "get_core_by_index"
    /\ ret.arg = size - 1
    /\ ret.ref = 1

\* C3: get_index_by_enum<e>() returns the smallest i < W with values[i] = e,
\* and 2^64-1 (all four 16-bit limbs 65535) when e is not in the aggregator;
\* in a built container it gives n for values[n]; and the step that
\* evaluates it changes nothing of the container or the build.
C3_PositionOfState ==
    /\ (ret.op = "get_index_by_enum") =>
           LET at == {i \in 0 .. size - 1 : values[i] = ret.arg}
           IN  IF at = {}
               THEN ret.val = << 65535, 65535, 65535, 65535 >>
               ELSE \E i \in at :
                        /\ \A j \in at : i <= j
                        /\ ret.val = << i, 0, 0, 0 >>
    /\ Built =>
           \A n \in 0 .. size - 1 :
               get_index_by_enum_value(values[n]) = << n, 0, 0, 0 >>

C3_PositionOf ==
    /\ []C3_PositionOfState
    /\ [][(ret' # ret /\ ret'.op = "get_index_by_enum") =>
              UNCHANGED << values, bases, kernel_iteration_count, diag, pc >>]_vars

C3_Witness ==
    /\ size = 2
    /\ values[0] = 1
    /\ values[1] = 3
    /\ ret.op = "get_index_by_enum"
    /\ ret.arg = 2
    /\ ret.val = numeric_limits_max

\* C4: get_core_by_index<n>() yields an element reference exactly when
\* n < W; for n >= W the build is rejected with kind get_core_by_index_oob
\* carrying n, and no reference is produced.
C4_IndexBounds ==
    (ret.op = "get_core_by_index") =>
        IF ret.arg < size
        THEN /\ pc = "idle"
             /\ diag = NoDiag
             /\ "ref" \in DOMAIN ret
             /\ ret.ref \in Slots
        ELSE /\ pc = "rejected"
             /\ diag = [kind |-> "get_core_by_index_oob",
                        values |-> << ret.arg >>]
             /\ "ref" \notin DOMAIN ret

C4_Witness ==
    /\ ret.op = "get_core_by_index"
    /\ ret.arg = size
    /\ size = 2
    /\ pc = "rejected"
    /\ diag.kind = "get_core_by_index_oob"
    /\ diag.values = << 2 >>

C6_NoneAdmittedNoEffect ==
    (InWalk /\ \A i \in 0 .. size - 1 : ~filter(mixin, values[i])) =>
        /\ trace = << >>
        /\ output_value = entry.output_value
        /\ kernel_iteration_count = entry.kernel_iteration_count

C6_Witness ==
    /\ pc = "idle"
    /\ mixin = "never_mixin"
    /\ size = 2
    /\ k = 2
    /\ kernel_iteration_count[0] = 1
    /\ kernel_iteration_count[1] = 1
    /\ trace = << >>

C9_CountNeverAnElement ==
    (Built /\ cafberiht_width >= 1) =>
        /\ \A i \in Slots : bases[i] # count
        /\ \A i \in 0 .. cafberiht_width - 1 : values[i] # count

\* C10 as stated: a step handed an element type that is not one of the
\* container's rejects the build with kind invalid_base_cast, whether or
\* not the mixin's filter admits the type.
C10_ForeignAlwaysRejected ==
    (step.called /\ ~is_base_of(step.base_type)) =>
        /\ pc = "rejected"
        /\ diag.kind = "invalid_base_cast"

\* C10 amended: a step handed an element type that the mixin's filter
\* admits rejects the build with kind invalid_base_cast when the type is not
\* one of the container's, and otherwise runs the mixin's impl on that
\* element; a step handed a type the filter does not admit checks nothing
\* and does nothing, also when the type is foreign.
C10_AdmittedForeignRejected ==
    step.called =>
        IF filter(step.mixin_type, step.base_type)
        THEN IF is_base_of(step.base_type)
             THEN /\ pc = "idle"
                  /\ diag = NoDiag
                  /\ trace = << subscript(step.base_type) >>
             ELSE /\ pc = "rejected"
                  /\ diag = [kind |-> "invalid_base_cast", values |-> << >>]
                  /\ trace = << >>
                  /\ output_value = entry.output_value
                  /\ kernel_iteration_count = entry.kernel_iteration_count
        ELSE /\ pc = "idle"
             /\ diag = NoDiag
             /\ trace = << >>
             /\ output_value = entry.output_value
             /\ kernel_iteration_count = entry.kernel_iteration_count

C10_Witness ==
    /\ step.called
    /\ step.mixin_type = "addition_mixin"
    /\ step.base_type = 2
    /\ ~is_base_of(step.base_type)
    /\ size = 2
    /\ pc = "rejected"
    /\ diag.kind = "invalid_base_cast"

====
